---------------------------- MODULE Spec2Model ----------------------------
(***************************************************************************)
(* State-machine model of src/index.mjs: the chunker                       *)
(* (splitTextIntoChunks), the retrying segment summarizer                  *)
(* (generateSummaryForChunk), the reducer (generateFinalSummary), the      *)
(* sequential orchestrator (processChunksSequentially) and the Lambda      *)
(* entry point (handler).                                                  *)
(*                                                                         *)
(* Strings.  The only character the code ever inspects is '.', so a text   *)
(* is kept as its length and the set of 0-based offsets that hold a '.':   *)
(* [len |-> n, dots |-> D].  This is an exact encoding of a string over    *)
(* the two character classes {'.', other}; slice, indexOf and              *)
(* concatenation are computed on it as JavaScript computes them.           *)
(* Opaque strings (summaries, error messages, key parts) are sequences of  *)
(* tokens.                                                                 *)
(***************************************************************************)
EXTENDS Integers, Sequences, FiniteSets, TLC

VARIABLES
    entry,          \* which function was called from outside
    pc,             \* position of the single logical thread of control
    event,          \* handler: event.Records[0].s3.object.key
    key,            \* handler: key (<<>> until assigned)
    fullText,       \* handler: fullText
    text,           \* splitTextIntoChunks: parameter text
    chunkSize,      \* splitTextIntoChunks: parameter chunkSize
    startIndex,     \* splitTextIntoChunks: local startIndex
    chunks,         \* splitTextIntoChunks: local chunks / handler: chunks
    i,              \* processChunksSequentially: loop variable i
    summaries,      \* processChunksSequentially: local summaries
    retryCount,     \* generateSummaryForChunk: parameter retryCount
    chunkSummaries, \* handler: chunkSummaries (<<>> until assigned)
    finalSummary,   \* handler: finalSummary (<<>> until assigned)
    inflight,       \* requests sent to the inference client, not yet settled
    log,            \* every inference call, response and wait, in order
    store,          \* the bucket: objects by key
    result,         \* handler: the returned outcome (<<>> until returned)
    other           \* the locals of a second invocation of handler that is
                    \* suspended at an await (<<>> when there is none)

vars == <<entry, pc, event, key, fullText, text, chunkSize, startIndex, chunks,
          i, summaries, retryCount, chunkSummaries, finalSummary, inflight,
          log, store, result, other>>

splitVars == <<text, chunkSize, startIndex, chunks>>

(***************************************************************************)
(* Program constants.                                                      *)
(***************************************************************************)
DefaultChunkSize == 80000
Lookback == 100
MaxRetries == 3
BackoffUnitMs == 5000
PacingMs == 3000

(***************************************************************************)
(* Bounds of the model.                                                    *)
(***************************************************************************)
\* a text given to the chunker needs at most this many naive cuts
NaiveChunks == 3
\* number of '.' characters in an enumerated text
MaxDots == 2
\* every offset below this is enumerated as a text length and a '.' offset
DenseLen == 8
\* largest text length given to the chunker on its own
MaxTextLen == 301

\* the loop of splitTextIntoChunks is followed for this many iterations
MaxChunks == NaiveChunks + MaxDots + 2

(***************************************************************************)
(* Strings.                                                                *)
(***************************************************************************)
Min(S) == CHOOSE x \in S : \A y \in S : x <= y

EmptyText == [len |-> 0, dots |-> {}]

\* a search that returns the last '.' at or after fromIndex, not the first
IndexOfLast(t, fromIndex) ==
    LET from == IF fromIndex < 0 THEN 0 ELSE fromIndex
        found == {p \in t.dots : p >= from}
    IN  IF found = {} THEN -1 ELSE CHOOSE x \in found : \A y \in found : x >= y

\* String.prototype.indexOf('.', fromIndex): fromIndex below 0 counts as 0
IndexOf(t, fromIndex) ==
    LET from == IF fromIndex < 0 THEN 0 ELSE fromIndex
        found == {p \in t.dots : p >= from}
    IN  IF found = {} THEN -1 ELSE Min(found)

\* relative-index clamping of String.prototype.slice
SliceIndex(t, k) ==
    IF k < 0 THEN (IF t.len + k < 0 THEN 0 ELSE t.len + k)
    ELSE IF k > t.len THEN t.len ELSE k

\* String.prototype.slice(start, end)
Slice(t, start, end) ==
    LET from == SliceIndex(t, start)
        to == SliceIndex(t, end)
    IN  IF to <= from THEN EmptyText
        ELSE [len |-> to - from,
              dots |-> {p - from : p \in {q \in t.dots : q >= from /\ q < to}}]

\* string concatenation a + b
Concat(a, b) ==
    [len |-> a.len + b.len, dots |-> a.dots \cup {p + a.len : p \in b.dots}]

RECURSIVE ConcatAll(_)
ConcatAll(ts) ==
    IF ts = <<>> THEN EmptyText
    ELSE Concat(ConcatAll(SubSeq(ts, 1, Len(ts) - 1)), ts[Len(ts)])

(***************************************************************************)
(* splitTextIntoChunks                                                     *)
(***************************************************************************)
\* a cut after the next '.' however far behind the naive boundary it lies
EndIndexUnbounded(t, start, size) ==
    LET endIndex == start + size
        nextPeriod == IndexOf(t, endIndex - Lookback)
    IN  IF endIndex < t.len /\ nextPeriod # -1
        THEN nextPeriod + 1
        ELSE endIndex

\* a distance test that is off by one
EndIndexInclusive(t, start, size) ==
    LET endIndex == start + size
        nextPeriod == IndexOf(t, endIndex - Lookback)
    IN  IF endIndex < t.len
           /\ nextPeriod # -1
           /\ nextPeriod - endIndex <= Lookback
        THEN nextPeriod + 1
        ELSE endIndex

\* the value of endIndex when the chunk is pushed (lines 20-28)
EndIndex(t, start, size) ==
    LET endIndex == start + size
        nextPeriod == IndexOf(t, endIndex - Lookback)
    IN  IF endIndex < t.len
           /\ nextPeriod # -1
           /\ nextPeriod - endIndex < Lookback
        THEN nextPeriod + 1
        ELSE endIndex

\* one iteration of the while loop
SplitLoop ==
    /\ pc = "split"
    /\ startIndex < text.len
    /\ Len(chunks) < MaxChunks
    /\ LET endIndex == EndIndex(text, startIndex, chunkSize)
       IN  /\ chunks' = Append(chunks, Slice(text, startIndex, endIndex))
           /\ startIndex' = endIndex
    /\ UNCHANGED <<other, entry, pc, event, key, fullText, text, chunkSize, i, summaries,
                   retryCount, chunkSummaries, finalSummary, inflight, log,
                   store, result>>

\* return chunks: to an outside caller, or to handler, which logs the count
\* and calls processChunksSequentially(chunks) (lines 34, 156-161, 123, 125)
SplitReturn ==
    /\ pc = "split"
    /\ ~(startIndex < text.len)
    /\ IF entry = "handler"
       THEN /\ pc' = "loop"
            /\ summaries' = <<>>
            /\ i' = 0
       ELSE /\ pc' = "returned"
            /\ UNCHANGED <<summaries, i>>
    /\ UNCHANGED <<other, entry, event, key, fullText, text, chunkSize, startIndex,
                   chunks, retryCount, chunkSummaries, finalSummary, inflight,
                   log, store, result>>

(***************************************************************************)
(* Opaque strings, errors, requests.                                       *)
(***************************************************************************)
\* String.prototype.includes, on a string held as a sequence of parts
Includes(message, part) == \E k \in 1..Len(message) : message[k] = part

\* a join that leaves the separator out
JoinPlain(parts, separator) == parts

\* Array.prototype.join
RECURSIVE Join(_, _)
Join(parts, separator) ==
    IF parts = <<>> THEN <<>>
    ELSE IF Len(parts) = 1 THEN <<parts[1]>>
    ELSE Join(SubSeq(parts, 1, Len(parts) - 1), separator)
            \o <<separator, parts[Len(parts)]>>

\* String.prototype.replace(pattern, replacement) with a string pattern:
\* the first occurrence only
ReplaceFirst(s, pattern, replacement) ==
    IF Includes(s, pattern)
    THEN LET k == Min({j \in 1..Len(s) : s[j] = pattern})
         IN  SubSeq(s, 1, k - 1) \o <<replacement>> \o SubSeq(s, k + 1, Len(s))
    ELSE s

\* key.replace(/\+/g, ' ')
PlusToSpace(s) == [k \in 1..Len(s) |-> IF s[k] = "+" THEN " " ELSE s[k]]

\* decodeURIComponent, on the escapes the enumerated keys hold
DecodeURIComponent(s) ==
    [k \in 1..Len(s) |->
        IF s[k] = "%2B" THEN "+" ELSE IF s[k] = "%20" THEN " " ELSE s[k]]

SummaryKey(k) ==
    ReplaceFirst(ReplaceFirst(k, "pdfs/", "summaries/"), ".pdf", ".txt")

DetailedSummaryKey(k) ==
    ReplaceFirst(ReplaceFirst(k, "pdfs/", "summaries/detailed_"), ".pdf", ".txt")

ThrottlingException ==
    [name |-> "ThrottlingException",
     message |-> <<"Too many requests", ", please wait before trying again.">>]
AccessDeniedException ==
    [name |-> "AccessDeniedException",
     message |-> <<"You don't have access to the model with the specified model ID.">>]
SyntaxError ==
    [name |-> "SyntaxError", message |-> <<"Unexpected end of JSON input">>]
NoSuchKey ==
    [name |-> "NoSuchKey", message |-> <<"The specified key does not exist.">>]
InvalidPDFException ==
    [name |-> "InvalidPDFException", message |-> <<"Invalid PDF structure">>]
SlowDown ==
    [name |-> "SlowDown", message |-> <<"Please reduce your request rate.">>]
NoError == [name |-> "", message |-> <<>>]

\* what bedrockClient.send can reject with
InferenceErrors == {ThrottlingException, AccessDeniedException}
\* what GetObject, transformToByteArray and pdfParse can reject with
FetchErrors == {NoSuchKey, InvalidPDFException}
\* what PutObject can reject with
StoreErrors == {SlowDown}
\* the texts responseBody.content[0].text can be
Summaries == {"summary-A", "summary-B"}

\* the condition of the catch block of generateSummaryForChunk (line 75)
IsThrottled(error) == Includes(error.message, "Too many requests")

\* a catch block that retries whatever the error is
CanRetryAnyError(error, retries) == retries < MaxRetries

CanRetry(error, retries) == IsThrottled(error) /\ retries < MaxRetries

\* a backoff that does not grow with the retry count
BackoffMsConstant(retries) == BackoffUnitMs

\* the argument of wait in the catch block (line 77)
BackoffMs(retries) == BackoffUnitMs * (retries + 1)

\* a pacing wait after every chunk, the last included
NeedsPacingAlways(index, total) == index < total

\* the condition of the pacing wait (line 131)
NeedsPacing(index, total) == index < total - 1

\* a prompt that announces the 0-based index
ChunkRequestZeroBased(t, chunkIndex, totalChunks) ==
    [site |-> "generateSummaryForChunk", text |-> t,
     chunkNo |-> chunkIndex, totalChunks |-> totalChunks,
     summaries |-> <<>>]

\* the InvokeModelCommand of generateSummaryForChunk: the prompt's parts
ChunkRequest(t, chunkIndex, totalChunks) ==
    [site |-> "generateSummaryForChunk", text |-> t,
     chunkNo |-> chunkIndex + 1, totalChunks |-> totalChunks,
     summaries |-> <<>>]

\* the InvokeModelCommand of generateFinalSummary
FinalRequest(sums) ==
    [site |-> "generateFinalSummary", text |-> EmptyText, chunkNo |-> 0,
     totalChunks |-> 0, summaries |-> Join(sums, "--- Yeni Bolum ---")]

NoRequest ==
    [site |-> "", text |-> EmptyText, chunkNo |-> 0, totalChunks |-> 0,
     summaries |-> <<>>]

\* entries of log
Invoked(req) ==
    [op |-> "invoke", site |-> req.site, req |-> req, ms |-> 0, body |-> "",
     err |-> NoError]
Resolved(req, body) ==
    [op |-> "ok", site |-> req.site, req |-> req, ms |-> 0, body |-> body,
     err |-> NoError]
Rejected(req, error) ==
    [op |-> "error", site |-> req.site, req |-> req, ms |-> 0, body |-> "",
     err |-> error]
Waited(site, ms) ==
    [op |-> "wait", site |-> site, req |-> NoRequest, ms |-> ms, body |-> "",
     err |-> NoError]

\* PutObject: the object under Key is replaced
Put(objects, k, body) ==
    {o \in objects : o.key # k} \cup {[key |-> k, body |-> body]}

\* the outcome handler returns from its catch block (lines 196-204)
HandlerCatch(error) ==
    [statusCode |-> 500, error |-> "Failed to process PDF",
     details |-> error.message]

\* the outcome handler returns at the end of its try block (lines 188-195)
HandlerSuccess(k) ==
    [statusCode |-> 200,
     message |-> "PDF successfully processed and summaries created",
     summaryKey |-> SummaryKey(k),
     detailedSummaryKey |-> DetailedSummaryKey(k)]

(***************************************************************************)
(* handler, up to the split.                                               *)
(***************************************************************************)
\* lines 142-148: read the key from the event, send GetObject
Start ==
    /\ pc = "start"
    /\ key' = DecodeURIComponent(PlusToSpace(event))
    /\ pc' = "awaitGet"
    /\ UNCHANGED <<other, entry, event, fullText, text, chunkSize, startIndex, chunks,
                   i, summaries, retryCount, chunkSummaries, finalSummary,
                   inflight, log, store, result>>

\* the extracted texts of the enumerated documents
DocLens == {0} \cup {DefaultChunkSize * k + 150 : k \in 0..(NaiveChunks - 1)}
\* the text of two chunks may hold a '.' 80 characters before its end
DocDotSets(n) ==
    {{}} \cup (IF n = DefaultChunkSize + 150 THEN {{n - 80}} ELSE {})
DocTexts ==
    UNION {{[len |-> n, dots |-> D] : D \in DocDotSets(n)} : n \in DocLens}

\* lines 148-156: the object arrives and parses to one of texts;
\* splitTextIntoChunks is called with the default chunkSize
GetText(texts) ==
    /\ pc = "awaitGet"
    /\ \E t \in texts :
          /\ fullText' = t
          /\ text' = t
    /\ chunkSize' = DefaultChunkSize
    /\ chunks' = <<>>
    /\ startIndex' = 0
    /\ pc' = "split"
    /\ UNCHANGED <<other, entry, event, key, i, summaries, retryCount, chunkSummaries,
                   finalSummary, inflight, log, store, result>>

\* the derived keys of lines 170 and 179 never read the text: a document
\* stored outside 'pdfs/' is of one chunk at most
DocTextsFor(k) ==
    IF k[1] = "pdfs/" THEN DocTexts
    ELSE {t \in DocTexts : t.len < DefaultChunkSize}

GetOk == GetText(DocTextsFor(event))

\* lines 148-150 reject: control goes to the catch block
GetFail ==
    /\ pc = "awaitGet"
    /\ \E error \in FetchErrors : result' = <<HandlerCatch(error)>>
    /\ pc' = "done"
    /\ UNCHANGED <<other, entry, event, key, fullText, text, chunkSize, startIndex,
                   chunks, i, summaries, retryCount, chunkSummaries,
                   finalSummary, inflight, log, store>>

(***************************************************************************)
(* processChunksSequentially and generateSummaryForChunk.                  *)
(***************************************************************************)
\* a loop body that does not await: the call for the next chunk is made too
LoopCallAll ==
    /\ pc = "loop"
    /\ i < Len(chunks)
    /\ retryCount' = 0
    /\ LET req == ChunkRequest(chunks[i + 1], i, Len(chunks))
           more == IF i + 1 < Len(chunks)
                   THEN <<ChunkRequest(chunks[i + 2], i + 1, Len(chunks))>>
                   ELSE <<>>
       IN  /\ inflight' = inflight \cup {req} \cup {more[k] : k \in 1..Len(more)}
           /\ log' = log \o <<Invoked(req)>>
                         \o [k \in 1..Len(more) |-> Invoked(more[k])]
    /\ pc' = "awaitSummary"
    /\ UNCHANGED <<other, entry, event, key, fullText, text, chunkSize, startIndex,
                   chunks, i, summaries, chunkSummaries, finalSummary, store,
                   result>>

\* a retry count that is not reset for the next chunk
LoopCallKeepsRetryCount ==
    /\ pc = "loop"
    /\ i < Len(chunks)
    /\ LET req == ChunkRequest(chunks[i + 1], i, Len(chunks))
       IN  /\ inflight' = inflight \cup {req}
           /\ log' = Append(log, Invoked(req))
    /\ pc' = "awaitSummary"
    /\ UNCHANGED <<other, entry, event, key, fullText, text, chunkSize, startIndex,
                   chunks, i, summaries, retryCount, chunkSummaries,
                   finalSummary, store, result>>

\* lines 125-127, 40-71: the loop body calls generateSummaryForChunk with
\* retryCount 0, which sends its request
LoopCall ==
    /\ pc = "loop"
    /\ i < Len(chunks)
    /\ retryCount' = 0
    /\ LET req == ChunkRequest(chunks[i + 1], i, Len(chunks))
       IN  /\ inflight' = inflight \cup {req}
           /\ log' = Append(log, Invoked(req))
    /\ pc' = "awaitSummary"
    /\ UNCHANGED <<other, entry, event, key, fullText, text, chunkSize, startIndex,
                   chunks, i, summaries, chunkSummaries, finalSummary, store,
                   result>>

\* lines 72-73, 128-135: the response arrives; the summary is pushed and the
\* pacing wait starts unless this was the last chunk
SummaryOk ==
    /\ pc = "awaitSummary"
    /\ \E req \in inflight : \E body \in Summaries :
          /\ inflight' = inflight \ {req}
          /\ summaries' = Append(summaries, body)
          /\ IF NeedsPacing(i, Len(chunks))
             THEN /\ log' = log \o <<Resolved(req, body),
                                     Waited("processChunksSequentially", PacingMs)>>
                  /\ pc' = "waitPacing"
                  /\ i' = i
             ELSE /\ log' = Append(log, Resolved(req, body))
                  /\ pc' = "loop"
                  /\ i' = i + 1
    /\ UNCHANGED <<other, entry, event, key, fullText, text, chunkSize, startIndex,
                   chunks, retryCount, chunkSummaries, finalSummary, store,
                   result>>

\* lines 133, 125: the pacing wait is over; i++
PacingElapsed ==
    /\ pc = "waitPacing"
    /\ i' = i + 1
    /\ pc' = "loop"
    /\ UNCHANGED <<other, entry, event, key, fullText, text, chunkSize, startIndex,
                   chunks, summaries, retryCount, chunkSummaries, finalSummary,
                   inflight, log, store, result>>

\* a catch block that gives up on the chunk and lets the loop go on
SummaryCatchSkips(req, error) ==
    /\ inflight' = inflight \ {req}
    /\ IF CanRetry(error, retryCount)
       THEN /\ log' = log \o <<Rejected(req, error),
                               Waited("generateSummaryForChunk",
                                      BackoffMs(retryCount))>>
            /\ pc' = "waitBackoff"
            /\ i' = i
       ELSE /\ log' = Append(log, Rejected(req, error))
            /\ pc' = "loop"
            /\ i' = i + 1
    /\ UNCHANGED <<other, entry, event, key, fullText, text, chunkSize, startIndex,
                   chunks, summaries, retryCount, chunkSummaries,
                   finalSummary, store, result>>

\* lines 74-81: the catch block of generateSummaryForChunk, entered with
\* error; a rethrown error passes through processChunksSequentially to the
\* catch block of handler
SummaryCatch(req, error) ==
    /\ inflight' = inflight \ {req}
    /\ IF CanRetry(error, retryCount)
       THEN /\ log' = log \o <<Rejected(req, error),
                               Waited("generateSummaryForChunk",
                                      BackoffMs(retryCount))>>
            /\ pc' = "waitBackoff"
            /\ UNCHANGED result
       ELSE /\ log' = Append(log, Rejected(req, error))
            /\ result' = <<HandlerCatch(error)>>
            /\ pc' = "done"
    /\ UNCHANGED <<other, entry, event, key, fullText, text, chunkSize, startIndex,
                   chunks, i, summaries, retryCount, chunkSummaries,
                   finalSummary, store>>

\* line 71 rejects
SummaryError ==
    /\ pc = "awaitSummary"
    /\ \E req \in inflight : \E error \in InferenceErrors :
          SummaryCatch(req, error)

\* lines 72-73 throw: the response is not the JSON expected
SummaryMalformed ==
    /\ pc = "awaitSummary"
    /\ \E req \in inflight : SummaryCatch(req, SyntaxError)

\* lines 77-78, 40-71: the backoff wait is over; the recursive call sends
\* the request again
BackoffElapsed ==
    /\ pc = "waitBackoff"
    /\ retryCount' = retryCount + 1
    /\ LET req == ChunkRequest(chunks[i + 1], i, Len(chunks))
       IN  /\ inflight' = inflight \cup {req}
           /\ log' = Append(log, Invoked(req))
    /\ pc' = "awaitSummary"
    /\ UNCHANGED <<other, entry, event, key, fullText, text, chunkSize, startIndex,
                   chunks, i, summaries, chunkSummaries, finalSummary, store,
                   result>>

\* lines 125, 137, 161-165: the loop ends, the summaries are returned to
\* handler, which starts its wait
LoopReturn ==
    /\ pc = "loop"
    /\ ~(i < Len(chunks))
    /\ chunkSummaries' = <<summaries>>
    /\ log' = Append(log, Waited("handler", PacingMs))
    /\ pc' = "waitFinal"
    /\ UNCHANGED <<other, entry, event, key, fullText, text, chunkSize, startIndex,
                   chunks, i, summaries, retryCount, finalSummary, inflight,
                   store, result>>

(***************************************************************************)
(* generateFinalSummary and the rest of handler.                           *)
(***************************************************************************)
\* lines 165-167, 86-116: the wait is over; generateFinalSummary sends its
\* request
FinalCall ==
    /\ pc = "waitFinal"
    /\ LET req == FinalRequest(chunkSummaries[1])
       IN  /\ inflight' = inflight \cup {req}
           /\ log' = Append(log, Invoked(req))
    /\ pc' = "awaitFinal"
    /\ UNCHANGED <<other, entry, event, key, fullText, text, chunkSize, startIndex,
                   chunks, i, summaries, retryCount, chunkSummaries,
                   finalSummary, store, result>>

\* lines 117-118, 167-176: the response arrives; the first PutObject is sent
FinalOk ==
    /\ pc = "awaitFinal"
    /\ \E req \in inflight : \E body \in Summaries :
          /\ inflight' = inflight \ {req}
          /\ finalSummary' = <<body>>
          /\ log' = Append(log, Resolved(req, body))
    /\ pc' = "awaitPut1"
    /\ UNCHANGED <<other, entry, event, key, fullText, text, chunkSize, startIndex,
                   chunks, i, summaries, retryCount, chunkSummaries, store,
                   result>>

\* a reduce call made outside the try block: its error leaves handler
FinalThrowUncaught(req, error) ==
    /\ inflight' = inflight \ {req}
    /\ log' = Append(log, Rejected(req, error))
    /\ pc' = "done"
    /\ UNCHANGED <<other, entry, event, key, fullText, text, chunkSize, startIndex,
                   chunks, i, summaries, retryCount, chunkSummaries,
                   finalSummary, store, result>>

\* generateFinalSummary has no catch block: whatever lines 116-118 throw
\* reaches the catch block of handler
FinalThrow(req, error) ==
    /\ inflight' = inflight \ {req}
    /\ log' = Append(log, Rejected(req, error))
    /\ result' = <<HandlerCatch(error)>>
    /\ pc' = "done"
    /\ UNCHANGED <<other, entry, event, key, fullText, text, chunkSize, startIndex,
                   chunks, i, summaries, retryCount, chunkSummaries,
                   finalSummary, store>>

\* line 116 rejects
FinalError ==
    /\ pc = "awaitFinal"
    /\ \E req \in inflight : \E error \in InferenceErrors :
          FinalThrow(req, error)

\* lines 117-118 throw
FinalMalformed ==
    /\ pc = "awaitFinal"
    /\ \E req \in inflight : FinalThrow(req, SyntaxError)

\* lines 171-186: the final summary is stored; the second PutObject is sent
Put1Ok ==
    /\ pc = "awaitPut1"
    /\ store' = Put(store, SummaryKey(key), <<finalSummary[1]>>)
    /\ pc' = "awaitPut2"
    /\ UNCHANGED <<other, entry, event, key, fullText, text, chunkSize, startIndex,
                   chunks, i, summaries, retryCount, chunkSummaries,
                   finalSummary, inflight, log, result>>

\* line 171 rejects
Put1Fail ==
    /\ pc = "awaitPut1"
    /\ \E error \in StoreErrors : result' = <<HandlerCatch(error)>>
    /\ pc' = "done"
    /\ UNCHANGED <<other, entry, event, key, fullText, text, chunkSize, startIndex,
                   chunks, i, summaries, retryCount, chunkSummaries,
                   finalSummary, inflight, log, store>>

\* lines 181-195: the detailed summary is stored; handler returns success
Put2Ok ==
    /\ pc = "awaitPut2"
    /\ store' = Put(store, DetailedSummaryKey(key),
                    Join(chunkSummaries[1], "=== YENI BOLUM ==="))
    /\ result' = <<HandlerSuccess(key)>>
    /\ pc' = "done"
    /\ UNCHANGED <<other, entry, event, key, fullText, text, chunkSize, startIndex,
                   chunks, i, summaries, retryCount, chunkSummaries,
                   finalSummary, inflight, log>>

\* line 181 rejects
Put2Fail ==
    /\ pc = "awaitPut2"
    /\ \E error \in StoreErrors : result' = <<HandlerCatch(error)>>
    /\ pc' = "done"
    /\ UNCHANGED <<other, entry, event, key, fullText, text, chunkSize, startIndex,
                   chunks, i, summaries, retryCount, chunkSummaries,
                   finalSummary, inflight, log, store>>

(***************************************************************************)
(* One invocation of handler.                                              *)
(***************************************************************************)
EventKeys ==
    {<<"pdfs/", "book", ".pdf">>,
     <<"pdfs/", "my", "+", "book", "%2B", ".pdf">>,
     <<"inbox/", "book", ".pdf">>}

\* the bucket holds the document the event is about
SourceObject(k) == [key |-> k, body |-> <<"%PDF">>]

Init ==
    /\ entry = "handler"
    /\ pc = "start"
    /\ event \in EventKeys
    /\ key = <<>>
    /\ fullText = EmptyText
    /\ text = EmptyText
    /\ chunkSize = DefaultChunkSize
    /\ startIndex = 0
    /\ chunks = <<>>
    /\ i = 0
    /\ summaries = <<>>
    /\ retryCount = 0
    /\ chunkSummaries = <<>>
    /\ finalSummary = <<>>
    /\ inflight = {}
    /\ log = <<>>
    /\ store = {SourceObject(DecodeURIComponent(PlusToSpace(event)))}
    /\ result = <<>>
    /\ other = <<>>

Next ==
    \/ Start
    \/ GetOk
    \/ GetFail
    \/ SplitLoop
    \/ SplitReturn
    \/ LoopCall
    \/ SummaryOk
    \/ SummaryError
    \/ SummaryMalformed
    \/ BackoffElapsed
    \/ PacingElapsed
    \/ LoopReturn
    \/ FinalCall
    \/ FinalOk
    \/ FinalError
    \/ FinalMalformed
    \/ Put1Ok
    \/ Put1Fail
    \/ Put2Ok
    \/ Put2Fail

Spec == Init /\ [][Next]_vars

(***************************************************************************)
(* Two invocations of handler in one process.  The variables above are the *)
(* locals of the invocation that is running; other holds the locals of the *)
(* one that is suspended.  The bucket is the only state both can reach.    *)
(* Control passes from one to the other only where the running one awaits. *)
(***************************************************************************)
\* the positions at which handler is suspended in an await, has not begun
\* or has returned
Suspended ==
    {"start", "awaitGet", "awaitSummary", "waitBackoff", "waitPacing",
     "waitFinal", "awaitFinal", "awaitPut1", "awaitPut2", "done"}

\* the locals of the running invocation
Locals ==
    [pc |-> pc, event |-> event, key |-> key, fullText |-> fullText,
     text |-> text, chunkSize |-> chunkSize, startIndex |-> startIndex,
     chunks |-> chunks, i |-> i, summaries |-> summaries,
     retryCount |-> retryCount, chunkSummaries |-> chunkSummaries,
     finalSummary |-> finalSummary, inflight |-> inflight, log |-> log,
     result |-> result]

\* a summaries array at module level, one for both invocations
SwitchSharedSummaries ==
    /\ other # <<>>
    /\ pc \in Suspended
    /\ other' = <<Locals>>
    /\ pc' = other[1].pc
    /\ event' = other[1].event
    /\ key' = other[1].key
    /\ fullText' = other[1].fullText
    /\ text' = other[1].text
    /\ chunkSize' = other[1].chunkSize
    /\ startIndex' = other[1].startIndex
    /\ chunks' = other[1].chunks
    /\ i' = other[1].i
    /\ retryCount' = other[1].retryCount
    /\ chunkSummaries' = other[1].chunkSummaries
    /\ finalSummary' = other[1].finalSummary
    /\ inflight' = other[1].inflight
    /\ log' = other[1].log
    /\ result' = other[1].result
    /\ UNCHANGED <<entry, store, summaries>>

\* the running invocation is suspended and the other one goes on: every
\* variable of handler and of the functions it calls is a local of the
\* invocation (the module's own variables, lines 5-12, are never assigned)
Switch ==
    /\ other # <<>>
    /\ pc \in Suspended
    /\ other' = <<Locals>>
    /\ pc' = other[1].pc
    /\ event' = other[1].event
    /\ key' = other[1].key
    /\ fullText' = other[1].fullText
    /\ text' = other[1].text
    /\ chunkSize' = other[1].chunkSize
    /\ startIndex' = other[1].startIndex
    /\ chunks' = other[1].chunks
    /\ i' = other[1].i
    /\ summaries' = other[1].summaries
    /\ retryCount' = other[1].retryCount
    /\ chunkSummaries' = other[1].chunkSummaries
    /\ finalSummary' = other[1].finalSummary
    /\ inflight' = other[1].inflight
    /\ log' = other[1].log
    /\ result' = other[1].result
    /\ UNCHANGED <<entry, store>>

\* the two documents: the first holds a text of two chunks, the second a
\* text of one chunk
FirstKey == <<"pdfs/", "book", ".pdf">>
SecondKey == <<"pdfs/", "my", "+", "book", "%2B", ".pdf">>
ConcurrentDocTexts ==
    IF event = FirstKey
    THEN {[len |-> DefaultChunkSize + 150, dots |-> {}]}
    ELSE {[len |-> 150, dots |-> {}]}

GetOkConcurrent == GetText(ConcurrentDocTexts)

\* the locals of an invocation that has not begun
Fresh(k) ==
    [pc |-> "start", event |-> k, key |-> <<>>, fullText |-> EmptyText,
     text |-> EmptyText, chunkSize |-> DefaultChunkSize, startIndex |-> 0,
     chunks |-> <<>>, i |-> 0, summaries |-> <<>>, retryCount |-> 0,
     chunkSummaries |-> <<>>, finalSummary |-> <<>>, inflight |-> {},
     log |-> <<>>, result |-> <<>>]

Init2 ==
    /\ entry = "handler"
    /\ pc = "start"
    /\ event = FirstKey
    /\ key = <<>>
    /\ fullText = EmptyText
    /\ text = EmptyText
    /\ chunkSize = DefaultChunkSize
    /\ startIndex = 0
    /\ chunks = <<>>
    /\ i = 0
    /\ summaries = <<>>
    /\ retryCount = 0
    /\ chunkSummaries = <<>>
    /\ finalSummary = <<>>
    /\ inflight = {}
    /\ log = <<>>
    /\ store = {SourceObject(DecodeURIComponent(PlusToSpace(FirstKey))),
                SourceObject(DecodeURIComponent(PlusToSpace(SecondKey)))}
    /\ result = <<>>
    /\ other = <<Fresh(SecondKey)>>

Next2 ==
    \/ Switch
    \/ Start
    \/ GetOkConcurrent
    \/ GetFail
    \/ SplitLoop
    \/ SplitReturn
    \/ LoopCall
    \/ SummaryOk
    \/ SummaryError
    \/ SummaryMalformed
    \/ BackoffElapsed
    \/ PacingElapsed
    \/ LoopReturn
    \/ FinalCall
    \/ FinalOk
    \/ FinalError
    \/ FinalMalformed
    \/ Put1Ok
    \/ Put1Fail
    \/ Put2Ok
    \/ Put2Fail

Spec2 == Init2 /\ [][Next2]_vars

(***************************************************************************)
(* The chunker on its own: every text and chunk size within the bounds.    *)
(***************************************************************************)
Offsets(n) == {p \in 0..(n - 1) : p < DenseLen \/ p % 50 \in {0, 1, 49}}

TextLens(size) ==
    {n \in 0..MaxTextLen :
        /\ n <= size * NaiveChunks
        /\ (n <= DenseLen \/ n % 50 \in {0, 1, 49})}

RECURSIVE SetsUpTo(_, _)
SetsUpTo(S, k) ==
    IF k = 0 THEN {{}}
    ELSE LET smaller == SetsUpTo(S, k - 1)
         IN  smaller \cup {D \cup {p} : D \in smaller, p \in S}

DotSets(n) == SetsUpTo(Offsets(n), MaxDots)

ChunkSizes == {1, 2, 3, 50, 99, 100, 101, 150}

InitChunk ==
    /\ entry = "splitTextIntoChunks"
    /\ pc = "split"
    /\ \E size \in ChunkSizes : \E n \in TextLens(size) : \E D \in DotSets(n) :
          /\ text = [len |-> n, dots |-> D]
          /\ chunkSize = size
    /\ startIndex = 0
    /\ chunks = <<>>
    /\ event = <<>>
    /\ key = <<>>
    /\ fullText = EmptyText
    /\ i = 0
    /\ summaries = <<>>
    /\ retryCount = 0
    /\ chunkSummaries = <<>>
    /\ finalSummary = <<>>
    /\ inflight = {}
    /\ log = <<>>
    /\ store = {}
    /\ result = <<>>
    /\ other = <<>>

NextChunk == SplitLoop \/ SplitReturn

SpecChunk == InitChunk /\ [][NextChunk]_vars

(***************************************************************************)
(* Claims.                                                                 *)
(***************************************************************************)
\* C1 -----------------------------------------------------------------------
\* C1: every segment splitTextIntoChunks pushes is non-empty, and when it
\* returns, the concatenation of the segments in index order is the input
\* text.
ChunkCoverage ==
    entry = "splitTextIntoChunks" =>
        /\ \A k \in 1..Len(chunks) : chunks[k].len > 0
        /\ pc = "returned" => ConcatAll(chunks) = text


\* Reading the log ----------------------------------------------------------
Last(s) == s[Len(s)]

IsPrefix(a, b) == Len(a) <= Len(b) /\ a = SubSeq(b, 1, Len(a))

\* what an entry of the log shows from outside: the operation and the wait
Shape(s) == [j \in 1..Len(s) |-> <<s[j].op, s[j].ms>>]

IsChunkInvoke(e, k) ==
    e.op = "invoke" /\ e.site = "generateSummaryForChunk" /\ e.req.chunkNo = k

ChunkInvokes(k) == {j \in 1..Len(log) : IsChunkInvoke(log[j], k)}

\* the part of the log from the first inference call for segment k (1-based)
\* up to the next inference call that is not for segment k
SegmentLog(k) ==
    IF ChunkInvokes(k) = {} THEN <<>>
    ELSE LET a == Min(ChunkInvokes(k))
             later == {j \in (a + 1)..Len(log) :
                          log[j].op = "invoke" /\ ~IsChunkInvoke(log[j], k)}
             b == IF later = {} THEN Len(log) ELSE Min(later) - 1
         IN  SubSeq(log, a, b)

Failed == result # <<>> /\ result[1].statusCode = 500
Succeeded == result # <<>> /\ result[1].statusCode = 200

\* C2 -----------------------------------------------------------------------
ThrottledOnly(s) ==
    /\ s # <<>>
    /\ \A j \in 1..Len(s) :
          /\ s[j].op # "ok"
          /\ s[j].op = "error" => IsThrottled(s[j].err)

ExhaustedPattern ==
    << <<"invoke", 0>>, <<"error", 0>>, <<"wait", 5000>>,
       <<"invoke", 0>>, <<"error", 0>>, <<"wait", 10000>>,
       <<"invoke", 0>>, <<"error", 0>>, <<"wait", 15000>>,
       <<"invoke", 0>>, <<"error", 0>> >>

\* C2: a segment whose every attempt is throttled goes through inference
\* call, wait 5000, call, wait 10000, call, wait 15000, call, and then fails:
\* exactly 4 calls, no wait after the fourth failure, the run over.
RetryExhaustion ==
    \A k \in 1..Len(chunks) :
        LET s == SegmentLog(k)
        IN  ThrottledOnly(s) =>
              /\ IsPrefix(Shape(s), ExhaustedPattern)
              /\ Len(s) = Len(ExhaustedPattern) =>
                    /\ pc = "done"
                    /\ Failed
                    /\ Last(log) = Last(s)
              /\ pc = "done" => Len(s) = Len(ExhaustedPattern)

RetryExhaustionWitness ==
    /\ pc = "done"
    /\ Len(chunks) >= 2
    /\ ThrottledOnly(SegmentLog(2))
    /\ Cardinality(ChunkInvokes(2)) = 4

\* C3 -----------------------------------------------------------------------
IsFatalChunkError(e) ==
    e.op = "error" /\ e.site = "generateSummaryForChunk" /\ ~IsThrottled(e.err)

\* C3: a non-throttled failure of an inference call for a segment is the
\* last entry of the log (no call, no wait after it), and the run has ended
\* with that error's message as the failure's details.
FatalShortCircuit ==
    \A j \in 1..Len(log) :
        IsFatalChunkError(log[j]) =>
            /\ j = Len(log)
            /\ pc = "done"
            /\ Failed
            /\ result[1].details = log[j].err.message

FatalShortCircuitWitness ==
    /\ log # <<>>
    /\ IsFatalChunkError(Last(log))
    /\ Last(log).err = AccessDeniedException
    /\ retryCount = 2

\* C4 -----------------------------------------------------------------------
FinalInvokesUpTo(j) ==
    {m \in 1..j : log[m].op = "invoke" /\ log[m].site = "generateFinalSummary"}

\* C4: a throttled failure of the reduce call, on any of its first 3
\* attempts, is followed by a backoff wait of 5000 ms times the attempt
\* number, and does not end the run.
FinalRetryContract ==
    \A j \in 1..Len(log) :
        (/\ log[j].op = "error"
         /\ log[j].site = "generateFinalSummary"
         /\ IsThrottled(log[j].err)
         /\ Cardinality(FinalInvokesUpTo(j)) <= MaxRetries) =>
            /\ j < Len(log)
            /\ log[j + 1].op = "wait"
            /\ log[j + 1].ms = 5000 * Cardinality(FinalInvokesUpTo(j))
            /\ ~Failed

\* C5 -----------------------------------------------------------------------
\* the entry at j is the failure that ends the summarization of its segment
IsUnrecoverable(j) ==
    /\ log[j].op = "error"
    /\ log[j].site = "generateSummaryForChunk"
    /\ \/ ~IsThrottled(log[j].err)
       \/ Cardinality({m \in 1..j : IsChunkInvoke(log[m], log[j].req.chunkNo)}) = 4

\* C5: once the summarization of a segment has failed for good, there is no
\* inference call for a later segment, no reduce call, and
\* processChunksSequentially has returned nothing to handler.
AbortPropagation ==
    \A j \in 1..Len(log) :
        IsUnrecoverable(j) =>
            /\ \A m \in 1..Len(log) :
                  log[m].op = "invoke" =>
                      /\ log[m].site = "generateSummaryForChunk"
                      /\ log[m].req.chunkNo <= log[j].req.chunkNo
            /\ \A req \in inflight : FALSE
            /\ chunkSummaries = <<>>
            /\ Failed

AbortPropagationWitness ==
    /\ log # <<>>
    /\ IsUnrecoverable(Len(log))
    /\ Last(log).req.chunkNo = 2
    /\ Len(chunks) >= 3
    /\ Len(summaries) = 1

\* C6 -----------------------------------------------------------------------
\* C6: a run that has ended in failure has written no artifact: the bucket
\* holds what it held when the run began.
NoArtifactOnFailure ==
    Failed => store = {SourceObject(key)}

\* C7 -----------------------------------------------------------------------
\* C7: when the extracted text is empty, there are no segments, no inference
\* call is made, no artifact is written and the run does not succeed.
EmptyDocumentReported ==
    (entry = "handler" /\ pc \notin {"start", "awaitGet"} /\ fullText.len = 0) =>
        /\ chunks = <<>>
        /\ \A j \in 1..Len(log) : log[j].op # "invoke"
        /\ store = {SourceObject(key)}
        /\ ~Succeeded

\* C8 -----------------------------------------------------------------------
ChunkResponses ==
    SelectSeq(log, LAMBDA e : e.op = "ok" /\ e.site = "generateSummaryForChunk")

\* C8: what processChunksSequentially returns has one summary per segment,
\* and the summary at position k is the text of the one successful response
\* for segment k, whose request carried the segment's text, the 1-based
\* position k and the number of segments.
OrderedSummaries ==
    chunkSummaries # <<>> =>
        LET responses == ChunkResponses
        IN  /\ Len(chunkSummaries[1]) = Len(chunks)
            /\ Len(responses) = Len(chunks)
            /\ \A k \in 1..Len(chunks) :
                  /\ chunkSummaries[1][k] = responses[k].body
                  /\ responses[k].req.text = chunks[k]
                  /\ responses[k].req.chunkNo = k
                  /\ responses[k].req.totalChunks = Len(chunks)

OrderedSummariesWitness ==
    /\ chunkSummaries # <<>>
    /\ Len(chunks) = 3
    /\ chunkSummaries[1] = <<"summary-B", "summary-A", "summary-B">>
    /\ \E j \in 1..Len(log) : log[j].op = "wait" /\ log[j].ms = 10000

\* C9 -----------------------------------------------------------------------
Calls == SelectSeq(log, LAMBDA e : e.op \in {"invoke", "ok", "error"})

\* C9: at most one inference request is in flight; in the log every
\* inference call but the first comes after the response to the call before
\* it; a request for segment k is in flight only when the summaries of
\* segments 1..k-1 are known, and the reduce request only when all are.
OneInFlight ==
    LET calls == Calls
        responses == Len(ChunkResponses)
    IN  /\ Cardinality(inflight) <= 1
        /\ \A j \in 1..Len(calls) :
              /\ (calls[j].op = "invoke") <=> (j % 2 = 1)
              /\ calls[j].op # "invoke" => calls[j].req = calls[j - 1].req
        /\ \A req \in inflight :
              /\ Last(calls).op = "invoke"
              /\ Last(calls).req = req
              /\ req.site = "generateSummaryForChunk" =>
                    /\ Len(summaries) = req.chunkNo - 1
                    /\ responses = req.chunkNo - 1
              /\ req.site = "generateFinalSummary" =>
                    /\ chunkSummaries # <<>>
                    /\ responses = Len(chunks)

OneInFlightWitness ==
    /\ Len(chunks) = 3
    /\ \E req \in inflight : req.site = "generateFinalSummary"
    /\ \E j \in 1..Len(log) : log[j].op = "wait" /\ log[j].ms = 5000

\* C10 ----------------------------------------------------------------------
PacingWaits(site) ==
    {j \in 1..Len(log) : log[j].op = "wait" /\ log[j].site = site}

\* C10: in a run over n >= 1 segments, the response for segment k < n is
\* followed by exactly one 3000 ms wait of processChunksSequentially and then
\* by the first call for segment k+1; the response for segment n is followed
\* by no wait of processChunksSequentially, by exactly one 3000 ms wait of
\* handler and then by the reduce call; there is no other pacing wait,
\* whatever backoff waits the segments had.
PacingDelays ==
    Len(chunks) >= 1 =>
        /\ \A j \in 1..Len(log) :
              (log[j].op = "ok" /\ log[j].site = "generateSummaryForChunk") =>
                  LET k == log[j].req.chunkNo
                  IN  IF k < Len(chunks)
                      THEN /\ j < Len(log)
                           /\ log[j + 1] = Waited("processChunksSequentially", 3000)
                           /\ j + 2 <= Len(log) => IsChunkInvoke(log[j + 2], k + 1)
                      ELSE /\ j + 1 <= Len(log) =>
                                  log[j + 1] = Waited("handler", 3000)
                           /\ j + 2 <= Len(log) =>
                                  /\ log[j + 2].op = "invoke"
                                  /\ log[j + 2].site = "generateFinalSummary"
        /\ \A j \in PacingWaits("processChunksSequentially") \cup PacingWaits("handler") :
              /\ j > 1
              /\ log[j - 1].op = "ok"
              /\ log[j - 1].site = "generateSummaryForChunk"
        /\ (\E j \in 1..Len(log) :
                log[j].op = "invoke" /\ log[j].site = "generateFinalSummary") =>
              /\ Cardinality(PacingWaits("processChunksSequentially"))
                    = Len(chunks) - 1
              /\ Cardinality(PacingWaits("handler")) = 1

PacingDelaysWitness ==
    /\ pc = "awaitFinal"
    /\ Len(chunks) = 3
    /\ \E j \in 1..Len(log) : log[j].op = "wait" /\ log[j].ms = 15000

\* Reading a step of the chunker --------------------------------------------
\* the step is one iteration of the loop of splitTextIntoChunks
Cut == pc = "split" /\ Len(chunks') = Len(chunks) + 1

\* the naive boundary of the iteration about to run
NaiveBoundary == startIndex + chunkSize

\* the offsets of the '.' characters of text in [from, to)
DotsIn(from, to) == {p \in text.dots : p >= from /\ p < to}

\* C11 ----------------------------------------------------------------------
\* C11: every cut is at or before the naive boundary, and the segment
\* pushed has length at most chunkSize.
CutAtOrBeforeNaive ==
    [][Cut => /\ startIndex' <= NaiveBoundary
              /\ Last(chunks').len <= chunkSize]_vars

\* C11, amended: every cut is at most 100 characters past the naive
\* boundary, and the segment pushed has length at most chunkSize + 100.
CutWithinLookahead ==
    [][Cut => /\ startIndex' <= NaiveBoundary + 100
              /\ Last(chunks').len <= chunkSize + 100]_vars

CutWithinLookaheadWitness ==
    /\ entry = "splitTextIntoChunks"
    /\ chunkSize >= 100
    /\ Len(chunks) >= 2
    /\ chunks[2].len = chunkSize + 100
    /\ startIndex = chunks[1].len + chunks[2].len

\* C12 ----------------------------------------------------------------------
\* C12: when the naive boundary is before the end of the text and no '.'
\* lies in the 100 characters before it, the cut is at the naive boundary
\* and the segment has length chunkSize.
NaiveFallback ==
    [][(/\ Cut
        /\ NaiveBoundary < text.len
        /\ DotsIn(NaiveBoundary - 100, NaiveBoundary) = {}) =>
            /\ startIndex' = NaiveBoundary
            /\ Last(chunks').len = chunkSize]_vars

\* C12, amended: when the naive boundary is before the end of the text and
\* no '.' lies in the 100 characters before it nor in the 100 characters
\* from it on, the cut is at the naive boundary and the segment has length
\* chunkSize.
NaiveFallbackBothSides ==
    [][(/\ Cut
        /\ NaiveBoundary < text.len
        /\ DotsIn(NaiveBoundary - 100, NaiveBoundary + 100) = {}) =>
            /\ startIndex' = NaiveBoundary
            /\ Last(chunks').len = chunkSize]_vars

NaiveFallbackBothSidesWitness ==
    /\ entry = "splitTextIntoChunks"
    /\ Len(chunks) = 1
    /\ chunkSize < text.len
    /\ startIndex = chunkSize
    /\ chunks[1].len = chunkSize
    /\ text.dots # {}
    /\ \A p \in text.dots : p >= chunkSize + 100

\* C13 ----------------------------------------------------------------------
\* C13: when the naive boundary is before the end of the text and a '.'
\* lies in the 100 characters before it, the cut is right after the first
\* such '.', and the segment pushed is the slice from the cursor to that
\* cut; this for every chunk size, those below 100 included.
FirstTerminatorCut ==
    [][(/\ Cut
        /\ NaiveBoundary < text.len
        /\ DotsIn(NaiveBoundary - 100, NaiveBoundary) # {}) =>
            LET first == Min(DotsIn(NaiveBoundary - 100, NaiveBoundary))
            IN  /\ startIndex' = first + 1
                /\ Last(chunks') = Slice(text, startIndex, first + 1)]_vars

\* a chunk size below 100, a second cut made after a '.' that lies before
\* the cursor
FirstTerminatorCutWitness ==
    /\ entry = "splitTextIntoChunks"
    /\ chunkSize < 100
    /\ Len(chunks) = 2
    /\ Cardinality(text.dots) = 2
    /\ startIndex + chunkSize < text.len
    /\ startIndex = Min(text.dots) + 1
    /\ startIndex = chunks[1].len

\* C17 ----------------------------------------------------------------------
\* C17: every iteration of the loop of splitTextIntoChunks moves the cursor
\* strictly forward.
CursorAdvances ==
    [][Cut => startIndex' > startIndex]_vars

\* C14 ----------------------------------------------------------------------
ExampleText == [len |-> 80150, dots |-> {80070}]

\* C14: with the default chunk size, the text of 80,150 characters whose
\* only '.' is at offset 80,070 is split into the two segments [0, 80071)
\* and [80071, 80150), and the detailed summary stored at the end of the run
\* is the response for the first segment, the delimiter, the response for
\* the second segment.
EndToEndExample ==
    (/\ entry = "handler"
     /\ pc \notin {"start", "awaitGet", "split"}
     /\ fullText = ExampleText) =>
        /\ chunkSize = 80000
        /\ chunks = <<Slice(ExampleText, 0, 80071),
                      Slice(ExampleText, 80071, 80150)>>
        /\ chunks[1] = [len |-> 80071, dots |-> {80070}]
        /\ chunks[2] = [len |-> 79, dots |-> {}]
        /\ Succeeded =>
              \E o \in store :
                  /\ o.key = DetailedSummaryKey(key)
                  /\ o.body = <<ChunkResponses[1].body, "=== YENI BOLUM ===",
                                ChunkResponses[2].body>>

EndToEndExampleWitness ==
    /\ fullText = ExampleText
    /\ Succeeded
    /\ chunkSummaries[1] = <<"summary-A", "summary-B">>

\* C18 ----------------------------------------------------------------------
\* the log of a segment whose call succeeds after m throttled attempts
RetriedPattern(m) ==
    SubSeq(ExhaustedPattern, 1, 3 * m) \o << <<"invoke", 0>>, <<"ok", 0>> >>

\* C18: a segment whose call succeeds after m throttled attempts has gone
\* through exactly m + 1 inference calls and the m waits 5000, ..., 5000 * m,
\* one before each retry, and its summary is the text of the successful
\* response; this for every segment, whatever the retries of the segments
\* before it.
RetryThenSuccess ==
    \A k \in 1..Len(chunks) :
        LET s == SegmentLog(k)
            oks == {j \in 1..Len(s) : s[j].op = "ok"}
            errors == {j \in 1..Len(s) : s[j].op = "error"}
            m == Cardinality(errors)
        IN  oks # {} =>
              /\ Cardinality(oks) = 1
              /\ m <= 3
              /\ \A j \in errors : IsThrottled(s[j].err)
              /\ Shape(SubSeq(s, 1, 3 * m + 2)) = RetriedPattern(m)
              /\ Cardinality(ChunkInvokes(k)) = m + 1
              /\ Len(summaries) >= k
              /\ summaries[k] = s[3 * m + 2].body

\* two segments in a row that each succeed on the fourth attempt
RetryThenSuccessWitness ==
    /\ Len(summaries) = 2
    /\ Cardinality(ChunkInvokes(1)) = 4
    /\ Cardinality(ChunkInvokes(2)) = 4
    /\ Cardinality({j \in 1..Len(log) :
                       log[j].op = "wait" /\ log[j].ms = 15000}) = 2

\* C19 ----------------------------------------------------------------------
\* C19: a run of handler that has not returned can take a step; it returns
\* once, a record with status 200 or 500; status 200 carries both artifact
\* keys and comes only after every segment's call and the reduce call have
\* succeeded and the final summary and then the detailed summary have been
\* stored; status 500 carries an error description.
StructuredOutcome ==
    entry = "handler" =>
        /\ Len(result) <= 1
        /\ (pc = "done") <=> (result # <<>>)
        /\ pc # "done" => ENABLED Next
        /\ pc = "awaitPut2" =>
              [key |-> SummaryKey(key), body |-> <<finalSummary[1]>>] \in store
        /\ result # <<>> =>
              IF result[1].statusCode = 200
              THEN /\ result[1].summaryKey = SummaryKey(key)
                   /\ result[1].detailedSummaryKey = DetailedSummaryKey(key)
                   /\ chunkSummaries # <<>>
                   /\ Len(ChunkResponses) = Len(chunks)
                   /\ finalSummary # <<>>
                   /\ Last(log).op = "ok"
                   /\ Last(log).site = "generateFinalSummary"
                   /\ Last(log).body = finalSummary[1]
                   /\ \E o \in store : o.key = SummaryKey(key)
                   /\ [key |-> DetailedSummaryKey(key),
                       body |-> Join(chunkSummaries[1], "=== YENI BOLUM ===")]
                         \in store
              ELSE /\ result[1].statusCode = 500
                   /\ result[1].error = "Failed to process PDF"
                   /\ result[1].details # <<>>

StructuredOutcomeWitness ==
    /\ Succeeded
    /\ Len(chunks) = 3
    /\ \E j \in 1..Len(log) : log[j].op = "error"

\* C20 ----------------------------------------------------------------------
\* C20: the key of the final summary, the key of the detailed summary and
\* the key of the document are three different keys, and the document stays
\* in the bucket.
ArtifactKeysDistinct ==
    key # <<>> =>
        /\ SummaryKey(key) # DetailedSummaryKey(key)
        /\ SummaryKey(key) # key
        /\ DetailedSummaryKey(key) # key
        /\ SourceObject(key) \in store

\* C15 ----------------------------------------------------------------------
\* where a failed run failed, read from its log and locals: the function
\* whose inference call failed and the 1-based segment, or the artifact
\* writes, or the fetch
FailureContext(runLog, runFinalSummary) ==
    IF runLog # <<>> /\ Last(runLog).op = "error"
    THEN <<Last(runLog).site, Last(runLog).req.chunkNo>>
    ELSE IF runFinalSummary # <<>> THEN <<"write", 0>> ELSE <<"fetch", 0>>

\* C15: the outcome of a failed run identifies the stage and the segment
\* that failed: two failed runs that return the same outcome failed at the
\* same stage and segment.
OutcomeIdentifiesFailure ==
    (/\ other # <<>>
     /\ Failed
     /\ other[1].result = result) =>
        FailureContext(log, finalSummary)
            = FailureContext(other[1].log, other[1].finalSummary)

\* C16 ----------------------------------------------------------------------
\* C16: whatever the other invocation has done in between, the locals of an
\* invocation are what its own inputs and the responses to its own requests
\* make them: its chunks are the split of its own text, its requests carry
\* its own chunks, its summaries are the texts of its own successful
\* responses in order, its retry count is the number of failures of the
\* segment it is on, its final summary is the response to its own reduce
\* request, and its outcome is its own error or its own two keys.
RunsIsolated ==
    /\ key # <<>> => key = DecodeURIComponent(PlusToSpace(event))
    /\ pc \in {"start", "awaitGet"} =>
          /\ log = <<>>
          /\ inflight = {}
          /\ summaries = <<>>
          /\ retryCount = 0
    /\ pc \notin {"start", "awaitGet", "split"} =>
          LET responses == ChunkResponses
              current == SegmentLog(i + 1)
              failures == Cardinality({j \in 1..Len(current) :
                                          current[j].op = "error"})
          IN  /\ ConcatAll(chunks) = fullText
              /\ \A j \in 1..Len(log) :
                    (log[j].op = "invoke"
                        /\ log[j].site = "generateSummaryForChunk") =>
                        /\ log[j].req.chunkNo \in 1..Len(chunks)
                        /\ log[j].req.text = chunks[log[j].req.chunkNo]
                        /\ log[j].req.totalChunks = Len(chunks)
              /\ Len(summaries) = Len(responses)
              /\ \A k \in 1..Len(summaries) : summaries[k] = responses[k].body
              /\ chunkSummaries # <<>> => chunkSummaries[1] = summaries
              /\ pc = "awaitSummary" => retryCount = failures
              /\ pc = "waitBackoff" => retryCount = failures - 1
              /\ finalSummary # <<>> =>
                    \E j \in 1..Len(log) :
                        /\ log[j].op = "ok"
                        /\ log[j].req = FinalRequest(summaries)
                        /\ log[j].body = finalSummary[1]
              /\ Failed =>
                    IF log = <<>>
                    THEN \E error \in FetchErrors :
                             result[1].details = error.message
                    ELSE /\ Last(log).op = "error" =>
                               result[1].details = Last(log).err.message
                         /\ Last(log).op # "error" =>
                               /\ finalSummary # <<>>
                               /\ \E error \in StoreErrors :
                                      result[1].details = error.message
              /\ Succeeded =>
                    /\ result[1] = HandlerSuccess(key)
                    /\ finalSummary # <<>>
                    /\ Len(summaries) = Len(chunks)

\* both invocations are in the middle of a segment, with different retry
\* counts, the first on its second segment
RunsIsolatedWitness ==
    /\ other # <<>>
    /\ pc = "awaitSummary"
    /\ other[1].pc = "awaitSummary"
    /\ event = FirstKey
    /\ Len(summaries) = 1
    /\ retryCount = 2
    /\ other[1].retryCount = 1

=============================================================================
